---- MODULE Spec2Model ----
(***************************************************************************)
(* StorageChangeInspector (crates/block-access-list/src/inspector/         *)
(* storage.rs): the per-transaction recorder of storage reads and writes,  *)
(* driven by the interpreter's step hook, together with the part of the    *)
(* execution engine the hook looks at (operand stack, journal, loaded      *)
(* state, database).                                                       *)
(*                                                                         *)
(* Maps are functions with a finite domain; a key that is absent from the  *)
(* Rust map is absent from the DOMAIN.  The operand stack is a sequence    *)
(* whose first element is the top of the stack.                            *)
(***************************************************************************)
EXTENDS Integers, Sequences, FiniteSets, TLC

VARIABLES
    storage_read,   \* address -> set of StorageKey
    storage_write,  \* address -> StorageKey -> <<pre, post>>
    pre_state,      \* address -> StorageKey -> value
    tx_index,       \* current transaction index
    opcode,         \* interp.bytecode.opcode() of the instruction at hand
    address,        \* interp.input.target_address()
    stack,          \* interp.stack, top first
    journal,        \* context.journal_ref().journal()
    evm_state,      \* context.journal_ref().evm_state(): loaded slots
    db,             \* the database behind the journal
    pc,             \* "idle" | "fetched" | "stepped"
    steps,          \* instructions dispatched so far
    panicked,       \* the hook aborted (index of a missing map key)
    tracking,       \* the executed storage instructions are being logged
    trace,          \* log of executed storage instructions since the last
                    \* reset / transaction boundary
    lastop,         \* the last call or event that a property is about: "step",
                    \* "reset", "revert", a query; "none" after anything else
    answer,         \* what the last call of a classifier view returned
    prev,           \* the recorder as the last call to it (step, reset) or the
                    \* last revert found it
    txs,            \* two transactions, each with a recorder and a context of
                    \* its own, run side by side over db
    alone,          \* the same two transactions, each as it runs by itself
    unwind          \* a run of the `stage unwind` command, a record of
                    \*   command: the subcommand given
                    \*   offline: the --offline flag
                    \*   last_block_number: database, the latest block number
                    \*   block_numbers: database, block hash -> block number
                    \*   highest_static_files: static files, max_block_num()
                    \*   finalized_block_number: database, the saved finalized
                    \*     block number, if any
                    \*   provider_rw: the finalized block number as the open
                    \*     read-write transaction of the database unwind has it
                    \*   target: what unwind_target returned
                    \*   upc: how far execute has come
                    \*   calls: the calls execute has made so far
                    \*   at_start: the latest and the finalized block number
                    \*     execute found

vars == <<storage_read, storage_write, pre_state, tx_index, opcode, address,
          stack, journal, evm_state, db, pc, steps, panicked, tracking, trace,
          lastop, answer, prev, txs, alone, unwind>>

recorder == <<storage_read, storage_write, pre_state, tx_index>>
engine   == <<opcode, address, stack, journal, evm_state, db>>
\* what a run of the single recorder above has no part in
elsewhere == <<txs, alone, unwind>>

\* bookkeeping of the last call, for stating what a call did
RecorderNow ==
    [storage_read |-> storage_read, storage_write |-> storage_write,
     pre_state |-> pre_state, tx_index |-> tx_index]

Blank ==
    [storage_read |-> << >>, storage_write |-> << >>, pre_state |-> << >>,
     tx_index |-> 0]

NoAnswer == [view |-> "none", value |-> << >>]

Called(name) ==
    /\ lastop' = name /\ prev' = RecorderNow /\ answer' = NoAnswer
    /\ UNCHANGED elsewhere
Stepped ==
    /\ lastop' = "none" /\ prev' = Blank /\ answer' = NoAnswer
    /\ UNCHANGED elsewhere

(***************************************************************************)
(* Bounds                                                                  *)
(***************************************************************************)
MaxSteps   == 3    \* instructions dispatched in one run
MaxBlock   == 3    \* block numbers range over 0..MaxBlock
KeyBytes   == 2    \* digits of a StorageKey (32 in the program)
ByteBase   == 2    \* values of one digit (256 in the program)

Addresses == {"a1", "a2"}
Words     == {0, 1}   \* storage keys and values
\* transaction indices: the recorder only stores the index, so two values tell
\* a kept index from a changed one
TxIndices == {0, 1}
SLOAD     == "SLOAD"
SSTORE    == "SSTORE"
OTHER_OP  == "OTHER"
Opcodes   == {SLOAD, SSTORE, OTHER_OP}
ZERO      == 0

(***************************************************************************)
(* Map helpers                                                             *)
(***************************************************************************)
EmptyMap == [x \in {} |-> 0]

MapPut(m, k, v) == [x \in (DOMAIN m) \cup {k} |-> IF x = k THEN v ELSE m[x]]

\* HashMap::get(..).unwrap_or_default() for a map-valued map
GetOrEmpty(m, k) == IF k \in DOMAIN m THEN m[k] ELSE EmptyMap

(***************************************************************************)
(* StorageKey::from(slot.to_be_bytes()) and key.into()                     *)
(***************************************************************************)
RECURSIVE Pow(_, _)
Pow(b, n) == IF n = 0 THEN 1 ELSE b * Pow(b, n - 1)

\* big-endian digits of a word, most significant first
to_be_bytes(w) == [i \in 1..KeyBytes |-> (w \div Pow(ByteBase, KeyBytes - i)) % ByteBase]

RECURSIVE from_be_bytes_upto(_, _)
from_be_bytes_upto(b, n) ==
    IF n = 0 THEN 0 ELSE from_be_bytes_upto(b, n - 1) * ByteBase + b[n]

\* key.into(): the word a StorageKey encodes
key_into(b) == from_be_bytes_upto(b, KeyBytes)

StorageKeys == {to_be_bytes(w) : w \in Words}

(***************************************************************************)
(* The engine's side of the step hook                                      *)
(***************************************************************************)
\* a variant that yields zero for a missing operand instead of an error
peek_defaulting(stk, n) ==
    [ok |-> TRUE, val |-> IF n < Len(stk) THEN stk[n + 1] ELSE ZERO]

\* interp.stack.peek(n): the n-th operand from the top, or an error
peek(stk, n) ==
    IF n < Len(stk) THEN [ok |-> TRUE, val |-> stk[n + 1]]
                    ELSE [ok |-> FALSE, val |-> ZERO]

StorageChanged(a, k, had) ==
    [kind |-> "StorageChanged", address |-> a, key |-> k, had_value |-> had]
StorageWarmed(a, k) ==
    [kind |-> "StorageWarmed", address |-> a, key |-> k, had_value |-> ZERO]

\* journal.journal().last() matched against JournalEntry::StorageChanged
last_storage_changed(j) ==
    IF Len(j) > 0 /\ j[Len(j)].kind = "StorageChanged"
    THEN [some |-> TRUE, entry |-> j[Len(j)]]
    ELSE [some |-> FALSE, entry |-> StorageChanged("a1", ZERO, ZERO)]

(***************************************************************************)
(* StorageChangeInspector: setters and accessors                           *)
(***************************************************************************)
reads == storage_read

writes == storage_write

\* a variant that takes the symmetric difference with {key} instead of the union
read_insert_toggling(sr, a, key) ==
    LET old == IF a \in DOMAIN sr THEN sr[a] ELSE {}
    IN  MapPut(sr, a, (old \ {key}) \cup ({key} \ old))

\* self.storage_read.entry(address).or_default().insert(key)
read_insert(sr, a, key) ==
    MapPut(sr, a, (IF a \in DOMAIN sr THEN sr[a] ELSE {}) \cup {key})

\* a variant that replaces an entry that is already there
write_or_insert_replacing(sw, a, key, pair) ==
    MapPut(sw, a, MapPut(GetOrEmpty(sw, a), key, pair))

\* self.storage_write.entry(address).or_default().entry(key).or_insert(pair)
write_or_insert(sw, a, key, pair) ==
    IF a \in DOMAIN sw /\ key \in DOMAIN sw[a]
    THEN sw
    ELSE MapPut(sw, a, MapPut(GetOrEmpty(sw, a), key, pair))

\* a variant that drops the entry of a slot that is stored back to its
\* pre-value
write_insert_retracting(sw, a, key, pair) ==
    IF pair[1] = pair[2]
    THEN MapPut(sw, a, [x \in (DOMAIN GetOrEmpty(sw, a)) \ {key} |-> sw[a][x]])
    ELSE MapPut(sw, a, MapPut(GetOrEmpty(sw, a), key, pair))

\* self.storage_write.entry(address).or_default().insert(key, pair)
write_insert(sw, a, key, pair) ==
    MapPut(sw, a, MapPut(GetOrEmpty(sw, a), key, pair))

(***************************************************************************)
(* Classifier views.  The element the views call new_val is the value      *)
(* recorded for the slot as the result of the store, that is the post      *)
(* component of the write-set entry; old_val comes from the pre-state      *)
(* snapshot.                                                               *)
(***************************************************************************)
new_val_of(entry) == entry[2]

\* a variant that forgets to take the written slots out
read_only_slots_undiminished ==
    [a \in DOMAIN storage_read |-> storage_read[a]]

read_only_slots ==
    [a \in DOMAIN storage_read |->
        LET written == DOMAIN GetOrEmpty(storage_write, a)
        IN  storage_read[a] \ written]

unchanged_writes ==
    [a \in DOMAIN storage_write |->
        LET pre == GetOrEmpty(pre_state, a)
        IN  {slot \in DOMAIN storage_write[a] :
                /\ slot \in DOMAIN pre
                /\ pre[slot] = new_val_of(storage_write[a][slot])}]

\* a variant whose filter keeps the written slots instead of dropping them
untouched_pre_state_slots_inverted ==
    [a \in DOMAIN pre_state |->
        LET written == DOMAIN GetOrEmpty(storage_write, a)
        IN  {k \in DOMAIN pre_state[a] : k \in written}]

untouched_pre_state_slots ==
    [a \in DOMAIN pre_state |->
        LET written == DOMAIN GetOrEmpty(storage_write, a)
        IN  {k \in DOMAIN pre_state[a] : k \notin written}]

SlotsOf(m, a) == IF a \in DOMAIN m THEN m[a] ELSE {}

get_bal_storage_reads ==
    [a \in (DOMAIN read_only_slots) \cup (DOMAIN unchanged_writes)
            \cup (DOMAIN untouched_pre_state_slots) |->
        SlotsOf(read_only_slots, a) \cup SlotsOf(unchanged_writes, a)
            \cup SlotsOf(untouched_pre_state_slots, a)]

\* the slots of one address that get_bal_storage_writes keeps
bal_written_slots(a) ==
    LET pre == GetOrEmpty(pre_state, a)
    IN  {slot \in DOMAIN storage_write[a] :
            LET new_val == new_val_of(storage_write[a][slot])
                old_val == IF slot \in DOMAIN pre THEN pre[slot] ELSE ZERO
                changed == new_val # old_val
                zeroed  == old_val # ZERO /\ new_val = ZERO
            IN  changed \/ zeroed}

get_bal_storage_writes ==
    [a \in {x \in DOMAIN storage_write : bal_written_slots(x) # {}} |->
        [slot \in bal_written_slots(a) |-> new_val_of(storage_write[a][slot])]]

\* the classifier views a caller can ask for
Views == {"read_only_slots", "unchanged_writes", "untouched_pre_state_slots",
          "get_bal_storage_reads", "get_bal_storage_writes"}

view_value(v) ==
    CASE v = "read_only_slots"           -> read_only_slots
      [] v = "unchanged_writes"          -> unchanged_writes
      [] v = "untouched_pre_state_slots" -> untouched_pre_state_slots
      [] v = "get_bal_storage_reads"     -> get_bal_storage_reads
      [] v = "get_bal_storage_writes"    -> get_bal_storage_writes

\* a variant whose get_bal_storage_reads drains the read-set it reports
view_draining(v) ==
    IF v = "get_bal_storage_reads"
    THEN [RecorderNow EXCEPT !.storage_read = EmptyMap]
    ELSE RecorderNow

\* the recorder after a view has been computed: the views take &self
view_leaves(v) == RecorderNow

QueryOps == {"query", "query again"}

\* the owner asks for a view between two instructions
query(v) ==
    /\ pc = "idle"
    /\ answer' = [view |-> v, value |-> view_value(v)]
    /\ LET after == view_leaves(v)
       IN  /\ storage_read' = after.storage_read
           /\ storage_write' = after.storage_write
           /\ pre_state' = after.pre_state
           /\ tx_index' = after.tx_index
    /\ lastop' = IF lastop \in QueryOps THEN "query again" ELSE "query"
    /\ prev' = Blank
    /\ UNCHANGED <<engine, pc, steps, panicked, tracking, trace, elsewhere>>

(***************************************************************************)
(* Inspector::step, the hook called before each instruction executes       *)
(***************************************************************************)
Unchanged(sr, sw) == [storage_read |-> sr, storage_write |-> sw, panicked |-> FALSE]

\* does the journal's last entry name this address and this key?
last_matches(last, a, key) ==
    last.some /\ last.entry.address = a /\ last.entry.key = key_into(key)

\* opcode::SLOAD => { ... }
sload_arm(sr, sw, a, stk, j, st) ==
    LET slot == peek(stk, 0)
    IN  IF ~slot.ok THEN Unchanged(sr, sw)
        ELSE
        LET key  == to_be_bytes(slot.val)
            sr2  == read_insert(sr, a, key)
            last == last_storage_changed(j)
        IN  IF ~last_matches(last, a, key) THEN Unchanged(sr2, sw)
            ELSE
            LET addr     == last.entry.address
                slot_key == last.entry.key
            IN  \* evm_state()[addr].storage[slot_key] panics on a missing key
                IF addr \notin DOMAIN st \/ slot_key \notin DOMAIN st[addr]
                THEN [storage_read |-> sr2, storage_write |-> sw, panicked |-> TRUE]
                ELSE LET post == st[addr][slot_key]
                     IN  Unchanged(sr2, write_or_insert(sw, a, key,
                                            <<last.entry.had_value, post>>))

\* opcode::SSTORE => { ... }
sstore_arm(sr, sw, a, stk, j) ==
    LET val  == peek(stk, 0)
        slot == peek(stk, 1)
    IN  IF ~(val.ok /\ slot.ok) THEN Unchanged(sr, sw)
        ELSE
        LET key   == to_be_bytes(slot.val)
            value == val.val
            last  == last_storage_changed(j)
        IN  IF last_matches(last, a, key)
            THEN Unchanged(sr, write_insert(sw, a, key, <<last.entry.had_value, value>>))
            ELSE Unchanged(sr, sw)

\* a variant whose load arm catches every opcode that is not a store
step_result_unfiltered(op, sr, sw, a, stk, j, st) ==
    IF op = SSTORE THEN sstore_arm(sr, sw, a, stk, j)
    ELSE sload_arm(sr, sw, a, stk, j, st)

\* match opcode { SLOAD => .., SSTORE => .., _ => {} }
step_result(op, sr, sw, a, stk, j, st) ==
    IF op = SLOAD THEN sload_arm(sr, sw, a, stk, j, st)
    ELSE IF op = SSTORE THEN sstore_arm(sr, sw, a, stk, j)
    ELSE Unchanged(sr, sw)

\* the hook, leaving the interpreter with the operand stack stk_after
step_leaving(stk_after) ==
    /\ pc = "fetched"
    /\ LET r == step_result(opcode, storage_read, storage_write, address,
                            stack, journal, evm_state)
       IN  /\ storage_read' = r.storage_read
           /\ storage_write' = r.storage_write
           /\ panicked' = r.panicked
    /\ stack' = stk_after
    /\ pc' = "stepped"
    /\ Called("step")
    /\ UNCHANGED <<pre_state, tx_index, opcode, address, journal, evm_state, db,
                   steps, tracking, trace>>

\* a variant that pops the operand it reads
step_popping == step_leaving(IF stack = << >> THEN stack ELSE Tail(stack))

\* peek(..) reads the operands and leaves them where they are
step == step_leaving(stack)

(***************************************************************************)
(* StorageChangeInspector: calls made by the owner between instructions    *)
(***************************************************************************)
\* a variant that forgets to clear the write-set
reset_reads_only ==
    /\ pc = "idle"
    /\ storage_read' = EmptyMap
    /\ trace' = << >>
    /\ Called("reset")
    /\ UNCHANGED <<storage_write, pre_state, tx_index, engine, pc, steps,
                   panicked, tracking>>

reset ==
    /\ pc = "idle"
    /\ storage_read' = EmptyMap
    /\ storage_write' = EmptyMap
    /\ trace' = << >>
    /\ Called("reset")
    /\ UNCHANGED <<pre_state, tx_index, engine, pc, steps, panicked, tracking>>

AtBoundary == pc = "idle" /\ journal = << >> /\ \A a \in Addresses : evm_state[a] = EmptyMap

\* snapshots a caller supplies at a transaction boundary: nothing, or slot 0
\* of a1 declared with the value it holds before the transaction
Snapshots ==
    {EmptyMap,
     MapPut(EmptyMap, "a1", MapPut(EmptyMap, to_be_bytes(0), db["a1"][0]))}

set_pre_state(pre) ==
    /\ AtBoundary
    /\ pre_state' = pre
    /\ Stepped
    /\ UNCHANGED <<storage_read, storage_write, tx_index, engine, pc, steps,
                   panicked, tracking, trace>>

set_tx_index(index) ==
    /\ AtBoundary
    /\ tx_index' = index
    /\ Stepped
    /\ UNCHANGED <<storage_read, storage_write, pre_state, engine, pc, steps,
                   panicked, tracking, trace>>

(***************************************************************************)
(* The execution engine: the interpreter loop, the journaled state and its *)
(* database, as the hook's contract describes them                         *)
(***************************************************************************)
Stacks == {<< >>} \cup {<<x>> : x \in Words} \cup {<<x, y>> : x \in Words, y \in Words}

\* databases a run starts from: slot 0 of a1 holds any value, the rest is empty
InitialDbs ==
    {d \in [Addresses -> [Words -> Words]] :
        \A a \in Addresses, k \in Words : (a # "a1" \/ k # 0) => d[a][k] = ZERO}

Logged(op, a, k, v, before, ok) ==
    [op |-> op, address |-> a, key |-> k, value |-> v, before |-> before,
     journaled |-> (op = SSTORE /\ ok /\ before # v), ok |-> ok]

Log(rec) == IF tracking THEN Append(trace, rec) ELSE trace

\* how deep a storage instruction (and the hook in front of it) looks into the
\* stack; any other instruction is given stacks as deep as SSTORE's
Operands(op) == IF op = SLOAD THEN 1 ELSE 2

\* the interpreter arrives at an instruction of the frame running at a, its
\* stack given as far down as the instruction looks; the views are asked for
\* once execution is over
Fetch(op, a, stk) ==
    /\ pc = "idle"
    /\ Len(stk) <= Operands(op)
    /\ lastop \notin QueryOps
    /\ ~panicked
    /\ steps < MaxSteps
    /\ opcode' = op
    /\ address' = a
    /\ stack' = stk
    /\ steps' = steps + 1
    /\ pc' = "fetched"
    /\ Stepped
    /\ UNCHANGED <<recorder, journal, evm_state, db, panicked, tracking, trace>>

\* after an instruction the frame's operands are not carried over: the next
\* instruction is fetched with any stack
Retire ==
    /\ pc' = "idle"
    /\ stack' = << >>
    /\ Stepped
    /\ UNCHANGED <<recorder, opcode, address, db, steps, panicked, tracking>>

IsWarm(a, k) == k \in DOMAIN evm_state[a]

\* the journal after the slot has been loaded (a cold load is journaled)
WarmedJournal(a, k) ==
    IF IsWarm(a, k) THEN journal ELSE Append(journal, StorageWarmed(a, k))

PresentValue(a, k) == IF IsWarm(a, k) THEN evm_state[a][k] ELSE db[a][k]

ExecSload ==
    /\ pc = "stepped" /\ opcode = SLOAD
    /\ IF Len(stack) >= 1
       THEN LET k == stack[1]
                v == PresentValue(address, k)
            IN  /\ journal' = WarmedJournal(address, k)
                /\ evm_state' = [evm_state EXCEPT ![address] = MapPut(@, k, v)]
                /\ trace' = Log(Logged(SLOAD, address, k, v, v, TRUE))
       ELSE /\ UNCHANGED <<journal, evm_state>>
            /\ trace' = Log(Logged(SLOAD, address, ZERO, ZERO, ZERO, FALSE))
    /\ Retire

\* SSTORE(key, value): key on top of the stack, value below it
ExecSstore ==
    /\ pc = "stepped" /\ opcode = SSTORE
    /\ IF Len(stack) >= 2
       THEN LET k      == stack[1]
                v      == stack[2]
                before == PresentValue(address, k)
            IN  /\ journal' = IF before = v
                              THEN WarmedJournal(address, k)
                              ELSE Append(WarmedJournal(address, k),
                                          StorageChanged(address, k, before))
                /\ evm_state' = [evm_state EXCEPT ![address] = MapPut(@, k, v)]
                /\ trace' = Log(Logged(SSTORE, address, k, v, before, TRUE))
       ELSE /\ UNCHANGED <<journal, evm_state>>
            /\ trace' = Log(Logged(SSTORE, address, ZERO, ZERO, ZERO, FALSE))
    /\ Retire

ExecOther ==
    /\ pc = "stepped" /\ opcode \notin {SLOAD, SSTORE}
    /\ UNCHANGED <<journal, evm_state, trace>>
    /\ Retire

MapRemove(m, k) == [x \in (DOMAIN m) \ {k} |-> m[x]]

\* undo one journal entry
Undo(st, e) ==
    IF e.kind = "StorageChanged"
    THEN [st EXCEPT ![e.address] = MapPut(@, e.key, e.had_value)]
    ELSE [st EXCEPT ![e.address] = MapRemove(@, e.key)]

RECURSIVE RevertState(_, _, _)
RevertState(st, j, n) ==
    IF n = 0 THEN st
    ELSE RevertState(Undo(st, j[Len(j)]), SubSeq(j, 1, Len(j) - 1), n - 1)

\* a sub-call reverts: its n trailing journal entries are undone and removed
Revert(n) ==
    /\ pc = "idle"
    /\ n \in 1..Len(journal)
    /\ evm_state' = RevertState(evm_state, journal, n)
    /\ journal' = SubSeq(journal, 1, Len(journal) - n)
    /\ Called("revert")
    /\ UNCHANGED <<recorder, opcode, address, stack, db, pc, steps, panicked,
                   tracking, trace>>

\* the transaction ends: its state is committed and the journal is emptied
Commit ==
    /\ pc = "idle"
    /\ ~AtBoundary
    /\ db' = [a \in Addresses |-> [k \in Words |-> PresentValue(a, k)]]
    /\ evm_state' = [a \in Addresses |-> EmptyMap]
    /\ journal' = << >>
    /\ Stepped
    /\ UNCHANGED <<recorder, opcode, address, stack, pc, steps, panicked,
                   tracking, trace>>

(***************************************************************************)
(* Two transactions, each tracked by a recorder of its own                 *)
(***************************************************************************)
Txs == {"t1", "t2"}

\* StorageChangeInspector::new() and a context that has run nothing
NewTx ==
    [storage_read |-> EmptyMap, storage_write |-> EmptyMap, panicked |-> FALSE,
     opcode |-> OTHER_OP, address |-> "a1", stack |-> << >>, journal |-> << >>,
     evm_state |-> [a \in Addresses |-> EmptyMap], pc |-> "idle"]

\* the value of a slot in a transaction's journaled state over the shared db
ValueIn(st, a, k) == IF k \in DOMAIN st[a] THEN st[a][k] ELSE db[a][k]

WarmedIn(j, st, a, k) ==
    IF k \in DOMAIN st[a] THEN j ELSE Append(j, StorageWarmed(a, k))

\* the interpreter of a transaction arrives at an instruction
FetchIn(t, op, a, stk) ==
    [t EXCEPT !.opcode = op, !.address = a, !.stack = stk, !.pc = "fetched"]

\* step(&mut self, interp, context) of the recorder of t, given the journal of
\* the context it is called with
StepIn(t, j) ==
    LET r == step_result(t.opcode, t.storage_read, t.storage_write, t.address,
                         t.stack, j, t.evm_state)
    IN  [t EXCEPT !.storage_read = r.storage_read,
                  !.storage_write = r.storage_write,
                  !.panicked = r.panicked,
                  !.pc = "stepped"]

\* the instruction of a transaction executes in its own journaled state
ExecuteIn(t) ==
    LET a    == t.address
        k    == t.stack[1]
        v    == t.stack[2]
        st   == t.evm_state
        j    == WarmedIn(t.journal, st, a, k)
        done == [t EXCEPT !.stack = << >>, !.pc = "idle"]
    IN  IF t.opcode = SLOAD /\ Len(t.stack) >= 1
        THEN [done EXCEPT !.journal = j,
                          !.evm_state[a] = MapPut(@, k, ValueIn(st, a, k))]
        ELSE IF t.opcode = SSTORE /\ Len(t.stack) >= 2
        THEN [done EXCEPT !.journal = IF ValueIn(st, a, k) = v THEN j
                                      ELSE Append(j, StorageChanged(a, k, ValueIn(st, a, k))),
                          !.evm_state[a] = MapPut(@, k, v)]
        ELSE done

\* what the two transactions leave alone
single == <<recorder, engine, pc, panicked, tracking, trace, lastop, answer, prev,
            unwind>>

\* storage instructions with their operands; the hook passes over the others
StorageInstructions ==
    {<<op, stk>> \in {SLOAD, SSTORE} \X Stacks : Len(stk) = Operands(op)}

FetchTx(i, ins, a) ==
    /\ txs[i].pc = "idle"
    /\ \A x \in Txs : ~txs[x].panicked
    /\ steps < MaxSteps
    /\ steps' = steps + 1
    /\ txs' = [txs EXCEPT ![i] = FetchIn(@, ins[1], a, ins[2])]
    /\ alone' = [alone EXCEPT ![i] = FetchIn(@, ins[1], a, ins[2])]
    /\ UNCHANGED <<recorder, opcode, address, stack, journal, evm_state, db, pc,
                   panicked, tracking, trace, lastop, answer, prev, unwind>>

\* a variant in which the recorders write into one write-set
step_tx_sharing(i) ==
    /\ txs[i].pc = "fetched"
    /\ LET after == StepIn(txs[i], txs[i].journal)
       IN  txs' = [x \in Txs |->
                      IF x = i THEN after
                      ELSE [txs[x] EXCEPT !.storage_write = after.storage_write]]
    /\ alone' = [alone EXCEPT ![i] = StepIn(@, @.journal)]
    /\ UNCHANGED <<single, steps>>

\* the hook of transaction i: its recorder, its interpreter, its context
step_tx(i) ==
    /\ txs[i].pc = "fetched"
    /\ txs' = [txs EXCEPT ![i] = StepIn(@, @.journal)]
    /\ alone' = [alone EXCEPT ![i] = StepIn(@, @.journal)]
    /\ UNCHANGED <<single, steps>>

ExecuteTx(i) ==
    /\ txs[i].pc = "stepped"
    /\ txs' = [txs EXCEPT ![i] = ExecuteIn(@)]
    /\ alone' = [alone EXCEPT ![i] = ExecuteIn(@)]
    /\ UNCHANGED <<single, steps>>

(***************************************************************************)
(* Specifications                                                          *)
(***************************************************************************)
\* Option<u64>
None    == [some |-> FALSE, value |-> 0]
Some(n) == [some |-> TRUE, value |-> n]

\* no `stage unwind` command is running
NoCommand == unwind = [upc |-> "none"]

(***************************************************************************)
(* `stage unwind`: Subcommands::unwind_target and Command::execute         *)
(***************************************************************************)
BlockNumbers == 0..MaxBlock
Hashes       == {"h1", "h2"}

\* Subcommands::ToBlock { target: BlockHashOrNumber }, Subcommands::NumBlocks
ToBlockNumber(num) ==
    [kind |-> "ToBlock", by |-> "Number", number |-> num, hash |-> "h1"]
ToBlockHash(hash) ==
    [kind |-> "ToBlock", by |-> "Hash", number |-> 0, hash |-> hash]
NumBlocks(amount) ==
    [kind |-> "NumBlocks", by |-> "Amount", number |-> amount, hash |-> "h1"]

\* targets and amounts reach one past the largest latest block
Subcommands ==
    {ToBlockNumber(n) : n \in 0..(MaxBlock + 1)} \cup
    {ToBlockHash(h) : h \in Hashes} \cup
    {NumBlocks(n) : n \in 0..(MaxBlock + 1)}

Ok(t)  == [ok |-> TRUE, value |-> t, error |-> "none"]
Err(e) == [ok |-> FALSE, value |-> 0, error |-> e]

\* u64::saturating_sub
saturating_sub(a, b) == IF b > a THEN 0 ELSE a - b

\* a variant that returns the target without comparing it to the latest block
unwind_target_unbounded(cmd, readable, last, numbers) ==
    IF ~readable THEN Err("provider")
    ELSE IF cmd.kind = "ToBlock" /\ cmd.by = "Hash" /\ cmd.hash \notin DOMAIN numbers
    THEN Err("Block hash not found in database")
    ELSE Ok(IF cmd.kind = "NumBlocks" THEN saturating_sub(last, cmd.number)
            ELSE IF cmd.by = "Hash" THEN numbers[cmd.hash]
            ELSE cmd.number)

\* Subcommands::unwind_target over a provider whose latest block is last and
\* whose hash index is numbers; readable is whether the provider can be read
unwind_target(cmd, readable, last, numbers) ==
    IF ~readable THEN Err("provider")
    ELSE IF cmd.kind = "ToBlock" /\ cmd.by = "Hash" /\ cmd.hash \notin DOMAIN numbers
    THEN Err("Block hash not found in database")
    ELSE LET t == IF cmd.kind = "NumBlocks" THEN saturating_sub(last, cmd.number)
                  ELSE IF cmd.by = "Hash" THEN numbers[cmd.hash]
                  ELSE cmd.number
         IN  IF t > last
             THEN Err("Target block number is higher than the latest block number")
             ELSE Ok(t)

\* a variant that takes the highest static-file block whatever the target
highest_static_file_block_unfiltered(max_block_num, t) == max_block_num

\* get_highest_static_files().max_block_num().filter(|h| *h > target)
highest_static_file_block(max_block_num, t) ==
    IF max_block_num.some /\ max_block_num.value > t THEN max_block_num ELSE None

\* if highest_static_file_block.is_some() || self.offline
pipeline_unwind_chosen(u) ==
    highest_static_file_block(u.highest_static_files, u.target.value).some \/ u.offline

\* last_saved_finalized_block_number.is_none_or(|f| f > target)
is_none_or_above(f, t) == ~f.some \/ f.value > t

\* what a run of the command leaves alone
inspecting == <<recorder, engine, pc, steps, panicked, tracking, trace, lastop,
                answer, prev, txs, alone>>

\* execute goes on to `next` after a call that succeeded and returns the
\* error of a call that failed
Proceed(u, call, ok, next) ==
    [u EXCEPT !.calls = Append(@, call), !.upc = IF ok THEN next ELSE "failed"]

\* let target = self.command.unwind_target(provider_factory.clone())?
GetUnwindTarget ==
    /\ unwind.upc = "start"
    /\ LET t == unwind_target(unwind.command, unwind.readable,
                              unwind.last_block_number, unwind.block_numbers)
       IN  unwind' = [unwind EXCEPT !.target = t,
                                    !.upc = IF t.ok THEN "targeted" ELSE "failed"]
    /\ UNCHANGED inspecting

\* self.build_pipeline(..)?
BuildPipeline(ok) ==
    /\ unwind.upc = "targeted"
    /\ pipeline_unwind_chosen(unwind)
    /\ unwind' = Proceed(unwind, "build_pipeline", ok, "built")
    /\ UNCHANGED inspecting

\* pipeline.move_to_static_files()?
MoveToStaticFiles(ok) ==
    /\ unwind.upc = "built"
    /\ unwind' = Proceed(unwind, "move_to_static_files", ok, "moved")
    /\ UNCHANGED inspecting

\* pipeline.unwind(target, None)?
PipelineUnwind(ok) ==
    /\ unwind.upc = "moved"
    /\ unwind' = Proceed(unwind, "pipeline.unwind", ok, "unwound")
    /\ UNCHANGED inspecting

\* provider_factory.provider_rw()?
ProviderRw(ok) ==
    /\ unwind.upc = "targeted"
    /\ ~pipeline_unwind_chosen(unwind)
    /\ unwind' = [Proceed(unwind, "provider_rw", ok, "opened") EXCEPT
                      !.provider_rw = unwind.finalized_block_number]
    /\ UNCHANGED inspecting

\* provider.remove_block_and_execution_above(target, StorageLocation::Both)?
RemoveBlockAndExecutionAbove(ok) ==
    /\ unwind.upc = "opened"
    /\ unwind' = Proceed(unwind, "remove_block_and_execution_above", ok, "removed")
    /\ UNCHANGED inspecting

\* provider.last_finalized_block_number()?
LastFinalizedBlockNumber(ok) ==
    /\ unwind.upc = "removed"
    /\ unwind' = Proceed(unwind, "last_finalized_block_number", ok, "read")
    /\ UNCHANGED inspecting

\* if .. { provider.save_finalized_block_number(target)? }
SaveFinalizedBlockNumber(ok) ==
    /\ unwind.upc = "read"
    /\ is_none_or_above(unwind.provider_rw, unwind.target.value)
    /\ unwind' = [Proceed(unwind, "save_finalized_block_number", ok, "saved")
                      EXCEPT !.provider_rw = IF ok THEN Some(unwind.target.value)
                                             ELSE @]
    /\ UNCHANGED inspecting

\* provider.commit()?  The transaction's writes reach the database on commit
\* and are dropped with the transaction otherwise.
CommitUnwind(ok) ==
    /\ \/ unwind.upc = "saved"
       \/ /\ unwind.upc = "read"
          /\ ~is_none_or_above(unwind.provider_rw, unwind.target.value)
    /\ unwind' = [Proceed(unwind, "commit", ok, "committed") EXCEPT
                      !.finalized_block_number = IF ok THEN unwind.provider_rw ELSE @,
                      !.last_block_number = IF ok THEN unwind.target.value ELSE @]
    /\ UNCHANGED inspecting

\* the runs of the command: any subcommand and flag over any database
UnwindRuns ==
    [command : Subcommands, offline : BOOLEAN, readable : BOOLEAN,
     last_block_number : BlockNumbers,
     block_numbers : {EmptyMap} \cup {MapPut(EmptyMap, "h1", n) : n \in BlockNumbers},
     highest_static_files : {None} \cup {Some(n) : n \in BlockNumbers},
     finalized_block_number : {None} \cup {Some(n) : n \in BlockNumbers},
     provider_rw : {None},
     target : {Err("none")},
     upc : {"start"},
     calls : {<< >>},
     at_start : {None}]

\* StorageChangeInspector::new() in front of an engine that has run nothing
InitInspector(t) ==
    /\ storage_read = EmptyMap
    /\ storage_write = EmptyMap
    /\ pre_state = EmptyMap
    /\ tx_index = 0
    /\ opcode = OTHER_OP
    /\ address = "a1"
    /\ stack = << >>
    /\ journal = << >>
    /\ evm_state = [a \in Addresses |-> EmptyMap]
    /\ db \in InitialDbs
    /\ pc = "idle"
    /\ steps = 0
    /\ panicked = FALSE
    /\ tracking = t
    /\ trace = << >>
    /\ lastop = "none"
    /\ answer = NoAnswer
    /\ prev = Blank

\* no pair of transactions is running
NoPair == txs = << >> /\ alone = << >>

InitWith(t) == InitInspector(t) /\ NoPair /\ NoCommand

Init == InitWith(FALSE)

Next ==
    \/ \E op \in Opcodes, a \in Addresses, stk \in Stacks : Fetch(op, a, stk)
    \/ step
    \/ ExecSload
    \/ ExecSstore
    \/ ExecOther
    \/ \E n \in 1..(2 * MaxSteps) : Revert(n)
    \/ Commit
    \/ reset
    \/ \E pre \in Snapshots : set_pre_state(pre)
    \/ \E index \in TxIndices : set_tx_index(index)

Spec == Init /\ [][Next]_vars

\* two transactions, their instructions and hooks interleaved in any order
NextPair ==
    \/ \E i \in Txs, ins \in StorageInstructions, a \in Addresses : FetchTx(i, ins, a)
    \/ \E i \in Txs : step_tx(i)
    \/ \E i \in Txs : ExecuteTx(i)

InitPair ==
    /\ InitInspector(FALSE)
    /\ txs = [x \in Txs |-> NewTx]
    /\ alone = txs
    /\ NoCommand

SpecPair == InitPair /\ [][NextPair]_vars

\* one run of `stage unwind`
InitUnwind ==
    /\ InitInspector(FALSE)
    /\ NoPair
    /\ \E u \in UnwindRuns :
           unwind = [u EXCEPT !.at_start =
                                  [last_block_number |-> u.last_block_number,
                                   finalized_block_number |-> u.finalized_block_number]]

NextUnwind ==
    \/ GetUnwindTarget
    \/ \E ok \in BOOLEAN : BuildPipeline(ok)
    \/ \E ok \in BOOLEAN : MoveToStaticFiles(ok)
    \/ \E ok \in BOOLEAN : PipelineUnwind(ok)
    \/ \E ok \in BOOLEAN : ProviderRw(ok)
    \/ \E ok \in BOOLEAN : RemoveBlockAndExecutionAbove(ok)
    \/ \E ok \in BOOLEAN : LastFinalizedBlockNumber(ok)
    \/ \E ok \in BOOLEAN : SaveFinalizedBlockNumber(ok)
    \/ \E ok \in BOOLEAN : CommitUnwind(ok)

SpecUnwind == InitUnwind /\ [][NextUnwind]_vars

\* one transaction watched by a fresh recorder, its storage instructions logged
InitTx == InitWith(TRUE)

NextTx ==
    \/ \E op \in Opcodes, a \in Addresses, stk \in Stacks : Fetch(op, a, stk)
    \/ step
    \/ ExecSload
    \/ ExecSstore
    \/ ExecOther
    \/ \E pre \in Snapshots : set_pre_state(pre)

SpecTx == InitTx /\ [][NextTx]_vars

\* a recorder whose owner asks for the classifier views between instructions
NextQuery ==
    \/ \E op \in Opcodes, a \in Addresses, stk \in Stacks : Fetch(op, a, stk)
    \/ step
    \/ ExecSload
    \/ ExecSstore
    \/ ExecOther
    \/ \E pre \in Snapshots : set_pre_state(pre)
    \/ \E index \in TxIndices : set_tx_index(index)
    \/ \E v \in Views : query(v)

SpecQuery == Init /\ [][NextQuery]_vars

TypeOK ==
    /\ pc \in {"idle", "fetched", "stepped"}
    /\ steps \in 0..MaxSteps
    /\ opcode \in Opcodes
    /\ address \in Addresses
    /\ stack \in Stacks
    /\ tx_index \in TxIndices
    /\ DOMAIN storage_read \subseteq Addresses
    /\ DOMAIN storage_write \subseteq Addresses
    /\ \A a \in DOMAIN storage_read : storage_read[a] \subseteq StorageKeys
    /\ \A a \in DOMAIN storage_write : DOMAIN storage_write[a] \subseteq StorageKeys

(***************************************************************************)
(* Vocabulary of the properties                                            *)
(***************************************************************************)
HasRead(a, key)  == a \in DOMAIN reads /\ key \in reads[a]
HasWrite(a, key) == a \in DOMAIN writes /\ key \in DOMAIN writes[a]

InBalReads(a, key) ==
    a \in DOMAIN get_bal_storage_reads /\ key \in get_bal_storage_reads[a]
InBalWrites(a, key) ==
    a \in DOMAIN get_bal_storage_writes /\ key \in DOMAIN get_bal_storage_writes[a]

\* positions in the log of the executed stores to slot k of a
StoresTo(a, k) ==
    {i \in DOMAIN trace : /\ trace[i].op = SSTORE /\ trace[i].ok
                          /\ trace[i].address = a /\ trace[i].key = k}

Min(S) == CHOOSE x \in S : \A y \in S : x <= y
Max(S) == CHOOSE x \in S : \A y \in S : x >= y

\* the transaction so far has run to the end of an instruction
Executed == pc = "idle" /\ ~panicked

(***************************************************************************)
(* C1. Pre-value stability: after two or more journaled stores v1 .. vn to *)
(* one slot in one transaction, the write-set entry of the slot is         *)
(* (pre0, vn), pre0 being the value before the first store.                *)
(***************************************************************************)
PreValueStability ==
    Executed =>
        \A a \in Addresses, k \in Words :
            LET idx == StoresTo(a, k)
            IN  (Cardinality(idx) >= 2 /\ \A i \in idx : trace[i].journaled) =>
                    /\ HasWrite(a, to_be_bytes(k))
                    /\ writes[a][to_be_bytes(k)] =
                           <<trace[Min(idx)].before, trace[Max(idx)].value>>

(***************************************************************************)
(* C2. Partition completeness: every slot in the read-set or the write-set *)
(* is in exactly one of the BAL reads and the BAL writes of its address.   *)
(***************************************************************************)
PartitionCompleteness ==
    \A a \in Addresses, key \in StorageKeys :
        (HasRead(a, key) \/ HasWrite(a, key)) =>
            (InBalReads(a, key) # InBalWrites(a, key))

(***************************************************************************)
(* C3. No-op exclusion: a write-set slot whose recorded pre-value equals   *)
(* its post-value is absent from the BAL writes and in the BAL reads.      *)
(***************************************************************************)
NoOpExclusion ==
    \A a \in Addresses, key \in StorageKeys :
        (HasWrite(a, key) /\ writes[a][key][1] = writes[a][key][2]) =>
            (~InBalWrites(a, key) /\ InBalReads(a, key))

(***************************************************************************)
(* C4. Zero-clearing inclusion: a slot that held a nonzero value before    *)
(* the transaction and is stored to zero in it is in the BAL writes with   *)
(* (pre, post) = (that value, 0) and is not in the BAL reads.              *)
(***************************************************************************)
ZeroClearingInclusion ==
    Executed =>
        \A a \in Addresses, k \in Words :
            LET idx == StoresTo(a, k)
                key == to_be_bytes(k)
            IN  (idx # {} /\ db[a][k] # ZERO /\ trace[Max(idx)].value = ZERO) =>
                    /\ InBalWrites(a, key)
                    /\ get_bal_storage_writes[a][key] = ZERO
                    /\ writes[a][key] = <<db[a][k], ZERO>>
                    /\ ~InBalReads(a, key)

(***************************************************************************)
(* C5. A transaction whose only storage instruction is one SSTORE of v to  *)
(* slot s of a, the slot holding p # v before and no snapshot supplied,    *)
(* ends with BAL writes exactly {a: {s: (p, v)}} and no slot in BAL reads. *)
(***************************************************************************)
SingleStoreScenario ==
    (/\ Executed
     /\ Len(trace) = 1
     /\ trace[1].op = SSTORE /\ trace[1].ok
     /\ trace[1].before # trace[1].value
     /\ pre_state = EmptyMap) =>
        LET a   == trace[1].address
            key == to_be_bytes(trace[1].key)
        IN  /\ get_bal_storage_writes =
                   MapPut(EmptyMap, a, MapPut(EmptyMap, key, trace[1].value))
            /\ HasWrite(a, key)
            /\ writes[a][key] = <<trace[1].before, trace[1].value>>
            /\ \A b \in Addresses, slot \in StorageKeys : ~InBalReads(b, slot)

(***************************************************************************)
(* C6. A transaction that loads slot s of a (holding p) and then stores    *)
(* v # p to it ends with s in reads()[a], with a -> s -> (p, v) in the BAL *)
(* writes and with s not in the BAL reads of a.                            *)
(***************************************************************************)
LoadThenStoreScenario ==
    (/\ Executed
     /\ Len(trace) = 2
     /\ trace[1].op = SLOAD /\ trace[1].ok
     /\ trace[2].op = SSTORE /\ trace[2].ok
     /\ trace[2].address = trace[1].address /\ trace[2].key = trace[1].key
     /\ trace[2].value # trace[1].value) =>
        LET a   == trace[1].address
            key == to_be_bytes(trace[1].key)
        IN  /\ HasRead(a, key)
            /\ InBalWrites(a, key)
            /\ get_bal_storage_writes[a][key] = trace[2].value
            /\ writes[a][key] = <<trace[1].value, trace[2].value>>
            /\ ~InBalReads(a, key)

(***************************************************************************)
(* C7. A transaction that stores to one slot twice, the second store       *)
(* putting back the value p the slot held before the transaction           *)
(* (p -> x -> p), ends with the slot absent from the BAL writes and        *)
(* present in the BAL reads of its address.                                *)
(***************************************************************************)
StoreAndRestoreScenario ==
    (/\ Executed
     /\ Len(trace) = 2
     /\ trace[1].op = SSTORE /\ trace[1].ok
     /\ trace[2].op = SSTORE /\ trace[2].ok
     /\ trace[2].address = trace[1].address /\ trace[2].key = trace[1].key
     /\ trace[1].value # trace[1].before
     /\ trace[2].value = trace[1].before) =>
        LET a   == trace[1].address
            key == to_be_bytes(trace[1].key)
        IN  ~InBalWrites(a, key) /\ InBalReads(a, key)

(***************************************************************************)
(* C8. Reset isolation: after reset(), from any state, reads() and         *)
(* writes() are empty while the pre-state snapshot and the transaction     *)
(* index are what they were before the call.                               *)
(***************************************************************************)
ResetIsolation ==
    lastop = "reset" =>
        /\ reads = EmptyMap
        /\ writes = EmptyMap
        /\ pre_state = prev.pre_state
        /\ tx_index = prev.tx_index

\* reset() has discarded recorded reads and writes of a recorder that holds
\* a snapshot and a transaction index
ResetIsolationWitness ==
    /\ lastop = "reset"
    /\ prev.storage_read # EmptyMap
    /\ prev.storage_write # EmptyMap
    /\ pre_state # EmptyMap
    /\ tx_index # 0

(***************************************************************************)
(* C9. Idempotent reads: the hook observing an SLOAD of an (address, slot) *)
(* that is already in the read-set leaves the read-set as it was.          *)
(***************************************************************************)
SecondLoad ==
    /\ lastop = "step" /\ pc = "stepped"
    /\ opcode = SLOAD
    /\ peek(stack, 0).ok
    /\ address \in DOMAIN prev.storage_read
    /\ to_be_bytes(peek(stack, 0).val) \in prev.storage_read[address]

IdempotentReads == SecondLoad => reads = prev.storage_read

\* a second load of a slot of an address whose read-set holds another slot too
IdempotentReadsWitness ==
    /\ SecondLoad
    /\ Cardinality(reads[address]) >= 2

(***************************************************************************)
(* C10. Instrumentation never alters execution: whatever the opcode and    *)
(* the engine state, the hook leaves the operand stack, the journal, the   *)
(* loaded state and the database as they were and does not abort.          *)
(***************************************************************************)
HookLeavesEngineAlone ==
    [][(pc = "fetched" /\ pc' = "stepped") =>
          /\ stack' = stack
          /\ journal' = journal
          /\ evm_state' = evm_state
          /\ db' = db
          /\ opcode' = opcode
          /\ address' = address
          /\ ~panicked']_vars

\* the hook has recorded a write out of the journal, with operands on the stack
HookLeavesEngineAloneWitness ==
    /\ lastop = "step" /\ pc = "stepped"
    /\ stack # << >>
    /\ journal # << >>
    /\ writes # prev.storage_write

(***************************************************************************)
(* C11. Stack underflow is skipped silently: the hook at an SLOAD with an  *)
(* empty operand stack, or at an SSTORE with fewer than two operands,      *)
(* raises no error and leaves the read-set and the write-set as they were. *)
(***************************************************************************)
Underflow ==
    /\ lastop = "step" /\ pc = "stepped"
    /\ \/ opcode = SLOAD /\ Len(stack) = 0
       \/ opcode = SSTORE /\ Len(stack) < 2

UnderflowSkipped ==
    Underflow =>
        /\ ~panicked
        /\ reads = prev.storage_read
        /\ writes = prev.storage_write

\* an SSTORE with one operand, at the address whose slot the journal's last
\* record names, seen by a recorder that already holds reads
UnderflowSkippedWitness ==
    /\ Underflow
    /\ opcode = SSTORE /\ Len(stack) = 1
    /\ last_storage_changed(journal).some
    /\ last_storage_changed(journal).entry.address = address
    /\ reads # EmptyMap

StoreRecorded ==
    /\ lastop = "step" /\ pc = "stepped"
    /\ opcode = SSTORE /\ Len(stack) = 2
    /\ writes # prev.storage_write

SstoreOperandMapping ==
    StoreRecorded =>
        LET key == to_be_bytes(stack[1])
        IN  /\ HasWrite(address, key)
            /\ writes[address][key][2] = stack[2]
            /\ \A a \in DOMAIN writes, k \in StorageKeys :
                   (k \in DOMAIN writes[a] /\ <<a, k>> # <<address, key>>) =>
                       /\ a \in DOMAIN prev.storage_write
                       /\ k \in DOMAIN prev.storage_write[a]
                       /\ writes[a][k] = prev.storage_write[a][k]

(***************************************************************************)
(* C14. Every store is recorded: after the hook has seen an SSTORE with    *)
(* two operands, whatever the journal holds, the write-set has an entry    *)
(* for (target address, slot) whose post-value is the value being stored;  *)
(* an entry that is new has as pre-value the snapshot value of the slot,   *)
(* else the database value, else zero.                                     *)
(***************************************************************************)
\* the pre-state oracle: snapshot, else database (zero when never written)
value_of(a, k) ==
    IF a \in DOMAIN pre_state /\ to_be_bytes(k) \in DOMAIN pre_state[a]
    THEN pre_state[a][to_be_bytes(k)]
    ELSE db[a][k]

EveryStoreRecorded ==
    (/\ lastop = "step" /\ pc = "stepped"
     /\ opcode = SSTORE /\ Len(stack) = 2) =>
        LET key == to_be_bytes(stack[1])
            had == /\ address \in DOMAIN prev.storage_write
                   /\ key \in DOMAIN prev.storage_write[address]
        IN  /\ HasWrite(address, key)
            /\ writes[address][key][2] = stack[2]
            /\ ~had => writes[address][key][1] = value_of(address, stack[1])

(***************************************************************************)
(* C15. Journal reconciliation on load: when the hook sees an SLOAD of an  *)
(* (address, slot) that has no write-set entry and the journal holds a     *)
(* storage-change record for exactly that (address, slot) anywhere,        *)
(* unrelated records after it or not, the write-set gains the entry        *)
(* (had_value of the most recent such record, present value of the slot).  *)
(***************************************************************************)
\* positions of the journal's storage-change records for slot k of a
ChangesOf(a, k) ==
    {i \in DOMAIN journal : /\ journal[i].kind = "StorageChanged"
                            /\ journal[i].address = a /\ journal[i].key = k}

LoadOfJournaledSlot ==
    /\ lastop = "step" /\ pc = "stepped"
    /\ opcode = SLOAD /\ Len(stack) >= 1
    /\ ~(/\ address \in DOMAIN prev.storage_write
         /\ to_be_bytes(stack[1]) \in DOMAIN prev.storage_write[address])
    /\ ChangesOf(address, stack[1]) # {}

JournalReconciliation ==
    LoadOfJournaledSlot =>
        LET key == to_be_bytes(stack[1])
            i   == Max(ChangesOf(address, stack[1]))
        IN  /\ HasWrite(address, key)
            /\ writes[address][key] =
                   <<journal[i].had_value, evm_state[address][stack[1]]>>

(***************************************************************************)
(* C16. A load never rewrites a captured write: the hook at an SLOAD of an *)
(* (address, slot) that already has a write-set entry leaves that entry    *)
(* and every other entry as they were, whatever the journal holds, and     *)
(* the slot is in the read-set of the target address afterwards.           *)
(***************************************************************************)
LoadOfWrittenSlot ==
    /\ lastop = "step" /\ pc = "stepped"
    /\ opcode = SLOAD /\ Len(stack) >= 1
    /\ address \in DOMAIN prev.storage_write
    /\ to_be_bytes(stack[1]) \in DOMAIN prev.storage_write[address]

LoadKeepsWrite ==
    LoadOfWrittenSlot =>
        /\ writes = prev.storage_write
        /\ HasRead(address, to_be_bytes(stack[1]))

\* such a load while the journal's last record names the slot with another
\* had_value than the entry's pre-value
LoadKeepsWriteWitness ==
    /\ LoadOfWrittenSlot
    /\ last_matches(last_storage_changed(journal), address, to_be_bytes(stack[1]))
    /\ last_storage_changed(journal).entry.had_value #
           writes[address][to_be_bytes(stack[1])][1]

(***************************************************************************)
(* C17. Opcode filter: the hook at any opcode other than SLOAD and SSTORE  *)
(* leaves the read-set, the write-set, the snapshot and the transaction    *)
(* index as they were, whatever the stack and the journal hold.            *)
(***************************************************************************)
OtherOpcodeSeen ==
    /\ lastop = "step" /\ pc = "stepped"
    /\ opcode \notin {SLOAD, SSTORE}

OpcodeFilter == OtherOpcodeSeen => (RecorderNow = prev /\ ~panicked)

\* another opcode seen with two operands on the stack while the journal's last
\* record names the slot on top of the stack, by a recorder without that slot
OpcodeFilterWitness ==
    /\ OtherOpcodeSeen
    /\ Len(stack) = 2
    /\ last_matches(last_storage_changed(journal), address, to_be_bytes(stack[1]))
    /\ ~HasRead(address, to_be_bytes(stack[1]))
    /\ ~HasWrite(address, to_be_bytes(stack[1]))

(***************************************************************************)
(* C18. BAL writes are exactly the changing writes: an (address, slot) is  *)
(* in get_bal_storage_writes() if and only if the write-set holds for it   *)
(* a pair (pre, post) with post # pre, pre being the pre-value recorded in *)
(* the write-set, and what is reported for it is what was recorded.        *)
(***************************************************************************)
BalWritesAreChangingWrites ==
    \A a \in Addresses, key \in StorageKeys :
        /\ InBalWrites(a, key) <=>
               (HasWrite(a, key) /\ writes[a][key][2] # writes[a][key][1])
        /\ InBalWrites(a, key) =>
               get_bal_storage_writes[a][key] = writes[a][key][2]

(***************************************************************************)
(* C19. Untouched declared slots count as reads: every slot of the         *)
(* snapshot that has no write-set entry is in get_bal_storage_reads() of   *)
(* its address, loaded or not; a snapshot slot that has a write-set entry  *)
(* is not among the untouched slots.                                       *)
(***************************************************************************)
UntouchedDeclaredAreReads ==
    \A a \in DOMAIN pre_state :
        \A key \in DOMAIN pre_state[a] :
            /\ ~HasWrite(a, key) => InBalReads(a, key)
            /\ HasWrite(a, key) => key \notin untouched_pre_state_slots[a]

\* a declared slot that was neither loaded nor stored, in a transaction that
\* recorded a write elsewhere
UntouchedDeclaredAreReadsWitness ==
    /\ writes # EmptyMap
    /\ \E a \in DOMAIN pre_state :
           \E key \in DOMAIN pre_state[a] :
               ~HasWrite(a, key) /\ ~HasRead(a, key) /\ InBalReads(a, key)

(***************************************************************************)
(* C20. Read-only view is the set difference: read_only_slots() has the    *)
(* addresses of the read-set, and for each of them the slots of its        *)
(* read-set that have no write-set entry at that address; a slot that was  *)
(* both loaded and stored is never in it.                                  *)
(***************************************************************************)
ReadOnlyIsDifference ==
    /\ DOMAIN read_only_slots = DOMAIN reads
    /\ \A a \in Addresses, key \in StorageKeys :
           (a \in DOMAIN read_only_slots /\ key \in read_only_slots[a]) <=>
               (HasRead(a, key) /\ ~HasWrite(a, key))

\* an address with one slot that was loaded and stored and another that was
\* only loaded
ReadOnlyIsDifferenceWitness ==
    \E a \in Addresses :
        \E k1 \in StorageKeys, k2 \in StorageKeys :
            /\ HasRead(a, k1) /\ HasWrite(a, k1)
            /\ HasRead(a, k2) /\ ~HasWrite(a, k2)
            /\ read_only_slots[a] = {k2}

(***************************************************************************)
(* C21. No retraction on revert: between two resets the (address, slot)    *)
(* keys of the read-set and of the write-set only grow under step, and a   *)
(* sub-call that reverts, its trailing journal records removed and the     *)
(* slot's value restored, leaves every write-set entry recorded from it in *)
(* place.                                                                  *)
(***************************************************************************)
ReadKeysOf(rec) ==
    UNION {{<<a, key>> : key \in rec.storage_read[a]} : a \in DOMAIN rec.storage_read}

WriteKeysOf(rec) ==
    UNION {{<<a, key>> : key \in DOMAIN rec.storage_write[a]} :
               a \in DOMAIN rec.storage_write}

NoRetraction ==
    lastop \in {"step", "revert"} =>
        /\ ReadKeysOf(prev) \subseteq ReadKeysOf(RecorderNow)
        /\ WriteKeysOf(prev) \subseteq WriteKeysOf(RecorderNow)
        /\ lastop = "revert" => writes = prev.storage_write

\* a revert has just removed the journal's records of a slot that has a
\* write-set entry, and the slot no longer holds the recorded value
NoRetractionWitness ==
    /\ lastop = "revert"
    /\ \E a \in Addresses, k \in Words :
           /\ HasWrite(a, to_be_bytes(k))
           /\ ChangesOf(a, k) = {}
           /\ PresentValue(a, k) # writes[a][to_be_bytes(k)][2]

TargetReturned == unwind.upc \notin {"none", "start"}

UnwindTargetBounded ==
    TargetReturned =>
        LET cmd  == unwind.command
            last == unwind.at_start.last_block_number
            t    == unwind.target
        IN  /\ t.ok => t.value <= last
            /\ (cmd.kind = "ToBlock" /\ cmd.by = "Number" /\ cmd.number > last) => ~t.ok
            /\ (cmd.kind = "ToBlock" /\ cmd.by = "Hash"
                   /\ cmd.hash \notin DOMAIN unwind.block_numbers) => ~t.ok
            /\ cmd.kind = "NumBlocks" =>
                   /\ t.error # "Target block number is higher than the latest block number"
                   /\ unwind.readable =>
                          /\ t.ok
                          /\ t.value = Max({last - cmd.number, 0})

\* num-blocks with an amount above the latest block has returned zero
UnwindTargetBoundedWitness ==
    /\ TargetReturned
    /\ unwind.command.kind = "NumBlocks"
    /\ unwind.command.number > unwind.at_start.last_block_number
    /\ unwind.at_start.last_block_number > 0
    /\ unwind.target = Ok(0)

(***************************************************************************)
(* C24. Unwind path and finalized block: execute runs the pipeline unwind, *)
(* move_to_static_files strictly before pipeline.unwind(target), exactly   *)
(* when the highest static-file block is greater than the target or the    *)
(* offline flag is set, and the database unwind otherwise; after a         *)
(* database unwind commits, the saved finalized block number is at most    *)
(* the target: it is the target when it was absent or greater than the     *)
(* target, and what it was when it was at most the target.                 *)
(***************************************************************************)
PipelineCalls == {"build_pipeline", "move_to_static_files", "pipeline.unwind"}
DatabaseCalls ==
    {"provider_rw", "remove_block_and_execution_above", "last_finalized_block_number",
     "save_finalized_block_number", "commit"}

CallsMade == {unwind.calls[i] : i \in DOMAIN unwind.calls}

\* the highest static-file block is greater than the target, or --offline
StaticFilesAboveTargetOrOffline ==
    \/ unwind.highest_static_files.some /\ unwind.highest_static_files.value > unwind.target.value
    \/ unwind.offline

UnwindPathAndFinalizedBlock ==
    (unwind.upc # "none" /\ unwind.calls # << >>) =>
        /\ StaticFilesAboveTargetOrOffline <=> CallsMade \subseteq PipelineCalls
        /\ ~StaticFilesAboveTargetOrOffline <=> CallsMade \subseteq DatabaseCalls
        /\ \A i \in DOMAIN unwind.calls :
               unwind.calls[i] = "pipeline.unwind" =>
                   \E j \in 1..(i - 1) : unwind.calls[j] = "move_to_static_files"
        /\ unwind.upc = "committed" =>
               LET was == unwind.at_start.finalized_block_number
                   now == unwind.finalized_block_number
                   t   == unwind.target.value
               IN  /\ now.some /\ now.value <= t
                   /\ (~was.some \/ was.value > t) => now = Some(t)
                   /\ (was.some /\ was.value <= t) => now = was

\* a database unwind has committed below a finalized block that was saved
UnwindPathAndFinalizedBlockWitness ==
    /\ unwind.upc = "committed"
    /\ unwind.at_start.finalized_block_number.some
    /\ unwind.at_start.finalized_block_number.value > unwind.target.value
    /\ unwind.highest_static_files.some
    /\ unwind.finalized_block_number = Some(unwind.target.value)

====
